---------------------------- MODULE Spec2Model ----------------------------
(***************************************************************************)
(* Model of the telemetry core of src/vessel/vessel.py: Fatigue,           *)
(* PulseEstimator, DirectionTracker, Pods, RhythmStore and the Vessel      *)
(* that wires them together in possess / speak.                            *)
(*                                                                         *)
(* Numbers.  Python floats are modelled in fixed point: a scalar x is the  *)
(* integer round(x * Scale), Scale = 10^4 (the code itself rounds every    *)
(* value it reports with round(., 4)).  Embeddings handed in by the        *)
(* embedding provider are vectors with small integer coordinates, so the   *)
(* dot products and squared norms of Fatigue and PulseEstimator are exact; *)
(* only the square roots and quotients are rounded.  The sustained         *)
(* direction tau_dir and the modulated query are fixed-point vectors       *)
(* (coordinates times Scale).                                              *)
(*                                                                         *)
(* A vector is a record [n |-> its length, c |-> its leading coordinates]; *)
(* every coordinate after the leading ones is zero.  numpy raises          *)
(* ValueError when two vectors of different length meet in a subtraction,  *)
(* an addition or a dot product: the operators below report that as the    *)
(* outcome "raised" of the operation.                                      *)
(***************************************************************************)
EXTENDS Integers, Sequences, FiniteSets, TLC

VARIABLES
    inst,           \* which object was constructed: one component alone, or the Vessel
    fat_e,          \* Fatigue.e : embedding history
    fat_v,          \* Fatigue.v : velocity history
    tau,            \* PulseEstimator.tau (fixed point)
    last_time,      \* PulseEstimator.last_time   (<<>> is None)
    last_user_emb,  \* PulseEstimator.last_user_emb (<<>> is None)
    prev_user_emb,  \* PulseEstimator.prev_user_emb (<<>> is None)
    tau_dir,        \* DirectionTracker.tau_dir (<<>> is None)
    pods,           \* Pods.p : sequence of [id, emb, state] in insertion order
    samples,        \* RhythmStore.samples
    session_id,     \* RhythmStore.session_id (<<>> is None)
    model,          \* Vessel.model (<<>> is None)
    sid,            \* Vessel.sid   (<<>> is None)
    turn,           \* Vessel.turn
    fed,            \* history: the embeddings Fatigue.update accepted since the last reset
    calls,          \* history: update calls on a component instance, speak calls of a session
    detector,       \* the prototype FatigueDetector: its three histories
    prev_embed,     \* the caller's prev_embed (<<>> is None)
    streak,         \* history: the detect calls since construction or reset
    ret             \* the last operation and what it returned

vars == <<inst, fat_e, fat_v, tau, last_time, last_user_emb, prev_user_emb, tau_dir,
          pods, samples, session_id, model, sid, turn, fed, calls,
          detector, prev_embed, streak, ret>>

-----------------------------------------------------------------------------
(* Program constants *)

Scale == 10000
W == 5
THETA_SOFT == 6800
THETA_HARD == 8400
POD_THETA_HIGH == 8500
POD_THETA_SOFT == 5000
FallbackDim == 64
ProviderDim == 768

(* Python's None, and values that may be None *)
None == <<>>
Some(x) == <<x>>
Get(o) == o[1]

-----------------------------------------------------------------------------
(* Arithmetic helpers *)

Min(a, b) == IF a < b THEN a ELSE b
Max(a, b) == IF a > b THEN a ELSE b
Abs(a) == IF a < 0 THEN -a ELSE a

\* a / b rounded to the nearest integer (b > 0)
RDiv(a, b) == IF a >= 0 THEN (2 * a + b) \div (2 * b)
                        ELSE -((2 * (-a) + b) \div (2 * b))

RECURSIVE SqrtBS(_, _, _)
SqrtBS(n, lo, hi) ==
    IF lo >= hi THEN lo
    ELSE LET mid == (lo + hi + 1) \div 2
         IN  IF mid * mid <= n THEN SqrtBS(n, mid, hi) ELSE SqrtBS(n, lo, mid - 1)

\* floor of the square root
ISqrt(n) == SqrtBS(n, 0, Min(n, 46340))

RECURSIVE SumSeq(_)
SumSeq(s) == IF s = <<>> THEN 0 ELSE Head(s) + SumSeq(Tail(s))

-----------------------------------------------------------------------------
(* Vectors (numpy arrays) *)

Vec(n, x, y) == [n |-> n, c |-> <<x, y>>]

SameShape(a, b) == a.n = b.n

VSub(a, b) == [n |-> a.n, c |-> [i \in DOMAIN a.c |-> a.c[i] - b.c[i]]]
VAdd(a, b) == [n |-> a.n, c |-> [i \in DOMAIN a.c |-> a.c[i] + b.c[i]]]
VMul(k, a) == [n |-> a.n, c |-> [i \in DOMAIN a.c |-> k * a.c[i]]]
Dot(a, b) == SumSeq([i \in DOMAIN a.c |-> a.c[i] * b.c[i]])
NormSq(a) == Dot(a, a)

\* cosine of the angle between two integer vectors of non-zero norm, fixed point
Cosine(a, b) ==
    LET den == ISqrt(NormSq(a) * NormSq(b) * 1000000)
    IN  RDiv(Dot(a, b) * 10000000, den)

-----------------------------------------------------------------------------
(* Fatigue (vessel.py 104-132) *)

\* Fatigue.update without the eviction of the oldest velocity
FatigueUpdateOpNoEvict(eh, vh, e) ==
    IF eh /= <<>> /\ ~SameShape(e, eh[Len(eh)])
    THEN [raised |-> TRUE, e |-> eh, v |-> vh]
    ELSE LET v1 == IF eh /= <<>> THEN Append(vh, VSub(e, eh[Len(eh)])) ELSE vh
             e1 == Append(eh, e)
             e2 == IF Len(e1) > W THEN Tail(e1) ELSE e1
         IN  [raised |-> FALSE, e |-> e2, v |-> v1]

\* Fatigue.update that evicts the newest embedding, pop() for pop(0)
FatigueUpdateOpEvictsNewest(eh, vh, e) ==
    IF eh /= <<>> /\ ~SameShape(e, eh[Len(eh)])
    THEN [raised |-> TRUE, e |-> eh, v |-> vh]
    ELSE LET v1 == IF eh /= <<>> THEN Append(vh, VSub(e, eh[Len(eh)])) ELSE vh
             v2 == IF Len(v1) > W THEN Tail(v1) ELSE v1
             e1 == Append(eh, e)
             e2 == IF Len(e1) > W THEN SubSeq(e1, 1, W) ELSE e1
         IN  [raised |-> FALSE, e |-> e2, v |-> v2]

\* Fatigue.update on the histories (eh, vh): the new histories, or raised when
\* e - s.e[-1] meets two lengths (nothing is changed before the subtraction).
FatigueUpdateOp(eh, vh, e) ==
    IF eh /= <<>> /\ ~SameShape(e, eh[Len(eh)])
    THEN [raised |-> TRUE, e |-> eh, v |-> vh]
    ELSE LET v1 == IF eh /= <<>> THEN Append(vh, VSub(e, eh[Len(eh)])) ELSE vh
             v2 == IF Len(v1) > W THEN Tail(v1) ELSE v1
             e1 == Append(eh, e)
             e2 == IF Len(e1) > W THEN Tail(e1) ELSE e1
         IN  [raised |-> FALSE, e |-> e2, v |-> v2]

\* Fatigue._dp: cosine of the two most recent velocities
FatigueDp(vh) ==
    IF Len(vh) < 2 THEN 0
    ELSE LET a == vh[Len(vh) - 1]
             b == vh[Len(vh)]
         IN  IF NormSq(a) > 0 /\ NormSq(b) > 0 THEN Cosine(a, b) ELSE 0

\* The singular values of np.array(s.e), largest first, fixed point.  The rows
\* have two leading coordinates, so the Gram matrix [[p, q], [q, r]] has the
\* eigenvalues ((p + r) +- sqrt((p - r)^2 + 4 q^2)) / 2; numpy returns
\* min(rows, columns) values, the rest being zero.
SingularValues(eh) ==
    LET p == SumSeq([i \in DOMAIN eh |-> eh[i].c[1] * eh[i].c[1]])
        r == SumSeq([i \in DOMAIN eh |-> eh[i].c[2] * eh[i].c[2]])
        q == SumSeq([i \in DOMAIN eh |-> eh[i].c[1] * eh[i].c[2]])
        d == ISqrt(((p - r) * (p - r) + 4 * q * q) * 1000000) * 10
        l1 == ((p + r) * Scale + d) \div 2
        l2 == Max(0, ((p + r) * Scale - d) \div 2)
        k == Min(Len(eh), eh[1].n)
    IN  [i \in 1..k |-> IF i = 1 THEN ISqrt(l1 * Scale)
                        ELSE IF i = 2 THEN ISqrt(l2 * Scale) ELSE 0]

\* Fatigue._sc: share of the top three singular values
FatigueSc(eh) ==
    IF Len(eh) < 2 THEN 0
    ELSE LET S == SingularValues(eh)
             t == SumSeq(S)
         IN  IF t > 0 THEN RDiv(SumSeq(SubSeq(S, 1, Min(3, Len(S)))) * Scale, t) ELSE 0

\* 1/(cr/bs + 1e-8) is stored as CcCap from 4.5 on: with dp >= -1 and sc >= 0
\* the weighted sum is then at least 1 and f is clamped to 1.
CcCap == 45000

\* Fatigue._cc: inverse curvature of the last three velocities
FatigueCc(vh) ==
    IF Len(vh) < 3 THEN 0
    ELSE LET a == vh[Len(vh) - 2]
             b == vh[Len(vh) - 1]
             c == vh[Len(vh)]
             cr2 == NormSq(VSub(VSub(c, b), VSub(b, a)))
             d2 == NormSq(VSub(b, a))
             bs2 == d2 * d2 * d2
         IN  IF d2 = 0 THEN 0
             ELSE IF 4 * bs2 >= 81 * cr2 THEN CcCap
             ELSE ISqrt(RDiv(bs2 * Scale, cr2) * Scale)

\* the status with the test against the hard threshold left out
StatusOfNoHard(f, soft, hard) ==
    IF f > soft THEN "soft" ELSE "fresh"

\* the status for a score under a pair of thresholds
StatusOf(f, soft, hard) ==
    IF f > hard THEN "hard" ELSE IF f > soft THEN "soft" ELSE "fresh"

NoComponents == [dp |-> 0, sc |-> 0, cc |-> 0, empty |-> TRUE]

\* Fatigue.score with the short-history guard off by one (len(s.e) < 1)
FatigueScoreOpGuardOffByOne(eh, vh) ==
    IF Len(eh) < 1 THEN [f |-> 0, comp |-> NoComponents, st |-> "fresh"]
    ELSE LET dp == FatigueDp(vh)
             sc == FatigueSc(eh)
             cc == FatigueCc(vh)
             f == Max(0, Min(Scale, RDiv(35 * dp + 35 * sc + 30 * cc, 100)))
         IN  [f |-> f,
              comp |-> [dp |-> dp, sc |-> sc, cc |-> cc, empty |-> FALSE],
              st |-> StatusOf(f, THETA_SOFT, THETA_HARD)]

\* Fatigue.score: (f, components, status)
FatigueScoreOp(eh, vh) ==
    IF Len(eh) < 2 THEN [f |-> 0, comp |-> NoComponents, st |-> "fresh"]
    ELSE LET dp == FatigueDp(vh)
             sc == FatigueSc(eh)
             cc == FatigueCc(vh)
             f == Max(0, Min(Scale, RDiv(35 * dp + 35 * sc + 30 * cc, 100)))
         IN  [f |-> f,
              comp |-> [dp |-> dp, sc |-> sc, cc |-> cc, empty |-> FALSE],
              st |-> StatusOf(f, THETA_SOFT, THETA_HARD)]

\* Fatigue.reset
FatigueResetOp == [e |-> <<>>, v |-> <<>>]

-----------------------------------------------------------------------------
(* PulseEstimator (vessel.py 152-248) *)

\* a * b of two fixed-point numbers, a >= 0 possibly large
FMul(a, b) == (a \div Scale) * b + RDiv((a % Scale) * b, Scale)

\* e^(r/Scale) for 0 <= r < Scale: the exponential series
RECURSIVE ExpSeries(_, _, _)
ExpSeries(r, term, i) ==
    IF term = 0 \/ i > 12 THEN 0
    ELSE term + ExpSeries(r, RDiv(term * r, i * Scale), i + 1)

RECURSIVE ExpPow(_, _)
ExpPow(a, k) ==
    IF k = 0 THEN a
    ELSE IF k > 0 THEN ExpPow(FMul(a, 27183), k - 1)
    ELSE ExpPow(RDiv(a * Scale, 27183), k + 1)

\* np.exp(x) in fixed point.  Below e^-12 the value rounds to 0.  From e^4 on
\* the value is kept at e^4: the only large argument is the latency factor of
\* a timestamp that runs backwards, and 0.45 * e^4 already puts the sigmoid
\* at 1.0000.
ExpFP(x) ==
    IF x <= -12 * Scale THEN 0
    ELSE LET y == Min(x, 4 * Scale)
             k == IF y >= 0 THEN y \div Scale ELSE -((-y + Scale - 1) \div Scale)
             r == y - k * Scale
         IN  ExpPow(ExpSeries(r, Scale, 1), k)

\* the combination z taken as it is, without the sigmoid
SigmoidLeftOut(z) == z

\* the sigmoid with the sign of the exponent dropped: 1 / (1 + e^z)
SigmoidSignDropped(z) == RDiv(Scale * Scale, Scale + ExpFP(z))

\* 1 / (1 + e^-z)
Sigmoid(z) == RDiv(Scale * Scale, Scale + ExpFP(-z))

\* PulseEstimator.__init__
PulseFresh == [tau |-> 5000, last_time |-> None, last_user_emb |-> None,
               prev_user_emb |-> None]

\* PulseEstimator.update(msg, emb, timestamp) on the state p; len is len(msg).
\* The state is written only after every factor is computed, so a raise
\* leaves it as it was.
PulseUpdateOp(p, len, emb, timestamp) ==
    LET hasLast == p.last_user_emb /= None
        hasPrev == p.prev_user_emb /= None
        last == Get(p.last_user_emb)
        prev == Get(p.prev_user_emb)
        phi_L == IF p.last_time /= None
                 THEN ExpFP(-RDiv((timestamp - Get(p.last_time)) * Scale, 30))
                 ELSE 5000
        M_t == Min(RDiv(len * Scale, 500), Scale)
        nGuard == hasLast /\ NormSq(emb) > 0 /\ NormSq(last) > 0
        nRaise == nGuard /\ ~SameShape(emb, last)
        N_t == IF nGuard /\ ~nRaise THEN Scale - Max(0, Cosine(emb, last)) ELSE 5000
        dHist == hasPrev /\ hasLast
        dRaise == dHist /\ (~SameShape(last, prev) \/ ~SameShape(emb, last))
        v_prev == VSub(last, prev)
        v_curr == VSub(emb, last)
        D_t == IF dHist /\ ~dRaise /\ NormSq(v_prev) > 0 /\ NormSq(v_curr) > 0
               THEN Scale - Max(0, Cosine(v_prev, v_curr))
               ELSE 5000
        z == RDiv(45 * phi_L + 15 * M_t + 25 * N_t + 15 * D_t, 100)
        raw_tau == Sigmoid(z)
        newTau == RDiv(7 * raw_tau + 3 * p.tau, 10)
    IN  IF nRaise \/ dRaise
        THEN [raised |-> TRUE, p |-> p, tau_h |-> 0]
        ELSE [raised |-> FALSE,
              p |-> [tau |-> newTau, last_time |-> Some(timestamp),
                     last_user_emb |-> Some(emb),
                     prev_user_emb |-> p.last_user_emb],
              tau_h |-> newTau]

\* modulate_thresholds with pod_soft scaled by mod like the other three
ModulateThresholdsPodSoftDirect(t) ==
    LET mod == 12000 - RDiv(4 * t, 10)
    IN  [soft |-> Min(9500, RDiv(THETA_SOFT * mod, Scale)),
         hard |-> Min(9800, RDiv(THETA_HARD * mod, Scale)),
         pod_high |-> Min(9800, RDiv(POD_THETA_HIGH * mod, Scale)),
         pod_soft |-> Max(3000, RDiv(POD_THETA_SOFT * mod, Scale))]

\* modulate_thresholds with the hard threshold capped at 0.80
ModulateThresholdsHardCapLow(t) ==
    LET mod == 12000 - RDiv(4 * t, 10)
    IN  [soft |-> Min(9500, RDiv(THETA_SOFT * mod, Scale)),
         hard |-> Min(8000, RDiv(THETA_HARD * mod, Scale)),
         pod_high |-> Min(9800, RDiv(POD_THETA_HIGH * mod, Scale)),
         pod_soft |-> Max(3000, RDiv(POD_THETA_SOFT * (2 * Scale - mod), Scale))]

\* PulseEstimator.modulate_thresholds: (theta_soft, theta_hard, pod_high, pod_soft)
ModulateThresholds(t) ==
    LET mod == 12000 - RDiv(4 * t, 10)
    IN  [soft |-> Min(9500, RDiv(THETA_SOFT * mod, Scale)),
         hard |-> Min(9800, RDiv(THETA_HARD * mod, Scale)),
         pod_high |-> Min(9800, RDiv(POD_THETA_HIGH * mod, Scale)),
         pod_soft |-> Max(3000, RDiv(POD_THETA_SOFT * (2 * Scale - mod), Scale))]

\* PulseEstimator.reset that leaves prev_user_emb as it is
PulseResetOpKeepsPrev == [tau |-> 5000, last_time |-> None, last_user_emb |-> None,
                          prev_user_emb |-> prev_user_emb]

\* PulseEstimator.reset
PulseResetOp == [tau |-> 5000, last_time |-> None, last_user_emb |-> None,
                 prev_user_emb |-> None]

-----------------------------------------------------------------------------
(* DirectionTracker (vessel.py 267-349) *)

\* v / |v| as a fixed-point vector for a fixed-point v; v itself when its norm is 0
Normalize(v) ==
    LET norm == ISqrt(NormSq(v))
    IN  IF norm > 0
        THEN [n |-> v.n, c |-> [i \in DOMAIN v.c |-> RDiv(v.c[i] * Scale, norm)]]
        ELSE v

\* DirectionTracker.update(user_emb, tau_h) on tau_dir = td
DirectionUpdateOp(td, user_emb, tau_h) ==
    IF td = None
    THEN [raised |-> FALSE, tau_dir |-> Some(Normalize(VMul(Scale, user_emb)))]
    ELSE IF ~SameShape(Get(td), user_emb)
    THEN [raised |-> TRUE, tau_dir |-> td]
    ELSE LET effective_alpha == 8500 + RDiv(1500 * (Scale - tau_h), Scale)
             mix == [n |-> user_emb.n,
                     c |-> [i \in DOMAIN user_emb.c |->
                              RDiv(effective_alpha * Get(td).c[i]
                                   + (Scale - effective_alpha) * user_emb.c[i] * Scale,
                                   Scale)]]
         IN  [raised |-> FALSE, tau_dir |-> Some(Normalize(mix))]

\* DirectionTracker.alignment that answers 0 while no direction is set
AlignmentOpUnsetZero(td, emb) ==
    IF td = None THEN [raised |-> FALSE, val |-> 0]
    ELSE IF NormSq(emb) = 0 THEN [raised |-> FALSE, val |-> 5000]
    ELSE IF ~SameShape(emb, Get(td)) THEN [raised |-> TRUE, val |-> 0]
    ELSE [raised |-> FALSE,
          val |-> RDiv(Dot(emb, Get(td)) * Scale, ISqrt(NormSq(emb) * Scale * Scale))]

\* DirectionTracker.alignment(emb)
AlignmentOp(td, emb) ==
    IF td = None THEN [raised |-> FALSE, val |-> 5000]
    ELSE IF NormSq(emb) = 0 THEN [raised |-> FALSE, val |-> 5000]
    ELSE IF ~SameShape(emb, Get(td)) THEN [raised |-> TRUE, val |-> 0]
    ELSE [raised |-> FALSE,
          val |-> RDiv(Dot(emb, Get(td)) * Scale, ISqrt(NormSq(emb) * Scale * Scale))]

\* DirectionTracker.modulate_embedding(emb, lam=0.3), as a fixed-point vector
ModulateEmbeddingOp(td, emb) ==
    IF td = None THEN [raised |-> FALSE, val |-> VMul(Scale, emb)]
    ELSE IF ~SameShape(emb, Get(td)) THEN [raised |-> TRUE, val |-> VMul(Scale, emb)]
    ELSE LET dot == Dot(emb, Get(td))
         IN  [raised |-> FALSE,
              val |-> [n |-> emb.n,
                       c |-> [i \in DOMAIN emb.c |->
                                emb.c[i] * Scale
                                + RDiv(3 * dot * Get(td).c[i], 10 * Scale)]]]

\* DirectionTracker.reset
DirectionResetOp == None

-----------------------------------------------------------------------------
(* Pods (vessel.py 355-375) and Vessel._detect_pod_adaptive (843-854) *)

\* cosine of a fixed-point query q and an integer seed e, both of non-zero norm
Similarity(q, e) ==
    RDiv(RDiv(Dot(q, e) * Scale, ISqrt(NormSq(q))) * Scale,
         ISqrt(NormSq(e) * Scale * Scale))

\* Pods.create: ids are fresh (uuid4); the model numbers the pods
PodsCreateOp(ps, emb) ==
    Append(ps, [id |-> Len(ps) + 1, emb |-> emb, state |-> "latent"])

\* Pods.unveil that flips the state of the pod
PodsUnveilOpToggle(ps, pid) ==
    [i \in DOMAIN ps |-> IF ps[i].id = pid
                         THEN [ps[i] EXCEPT !.state = IF @ = "latent" THEN "unveiled"
                                                      ELSE "latent"]
                         ELSE ps[i]]

\* Pods.unveil
PodsUnveilOp(ps, pid) ==
    [i \in DOMAIN ps |-> IF ps[i].id = pid THEN [ps[i] EXCEPT !.state = "unveiled"]
                         ELSE ps[i]]

\* the similarity of Pods.detect, dot / (|emb| |e| + 1e-10): 0 when a norm is 0
DetectSimilarity(q, e) ==
    IF NormSq(q) = 0 \/ NormSq(e) = 0 THEN 0 ELSE Similarity(q, e)

\* the test of line 363 on one pod's similarity
FixedMatch(sim, f) ==
    sim > POD_THETA_HIGH \/ (f > THETA_HARD /\ sim > POD_THETA_SOFT)

\* what the loops of detection keep: best (None or the (id, sim) kept so far),
\* examined (the pods whose similarity was computed), matches (those that
\* passed the test)
DetectStart == [raised |-> FALSE, best |-> None, examined |-> <<>>, matches |-> <<>>]

\* one more pod that passed the test, the first one kept whatever comes after
DetectKeepFirst(acc, id, sim) ==
    [acc EXCEPT !.examined = Append(@, [id |-> id, sim |-> sim]),
                !.matches = Append(@, id),
                !.best = IF acc.best = None THEN Some([id |-> id, sim |-> sim]) ELSE @]

\* one more pod that passed the test: `if not best or sim > best[1]`
DetectKeep(acc, id, sim) ==
    [acc EXCEPT !.examined = Append(@, [id |-> id, sim |-> sim]),
                !.matches = Append(@, id),
                !.best = IF acc.best = None \/ sim > Get(acc.best).sim
                         THEN Some([id |-> id, sim |-> sim])
                         ELSE @]

\* the loop of Pods.detect from pod i on, unveiled pods passed over as well
RECURSIVE PodsDetectFromAnyState(_, _, _, _, _)
PodsDetectFromAnyState(ps, i, q, f, acc) ==
    IF i > Len(ps) THEN acc
    ELSE LET v == ps[i]
         IN  IF ~SameShape(q, v.emb) THEN [acc EXCEPT !.raised = TRUE]
             ELSE LET sim == DetectSimilarity(q, v.emb)
                  IN  IF FixedMatch(sim, f)
                      THEN PodsDetectFromAnyState(ps, i + 1, q, f, DetectKeep(acc, v.id, sim))
                      ELSE PodsDetectFromAnyState(ps, i + 1, q, f,
                             [acc EXCEPT !.examined = Append(@, [id |-> v.id, sim |-> sim])])

\* the loop of Pods.detect from pod i on.  np.dot raises when a latent seed is
\* not as long as the query.
RECURSIVE PodsDetectFrom(_, _, _, _, _)
PodsDetectFrom(ps, i, q, f, acc) ==
    IF i > Len(ps) THEN acc
    ELSE LET v == ps[i]
         IN  IF v.state /= "latent" THEN PodsDetectFrom(ps, i + 1, q, f, acc)
             ELSE IF ~SameShape(q, v.emb) THEN [acc EXCEPT !.raised = TRUE]
             ELSE LET sim == DetectSimilarity(q, v.emb)
                  IN  IF FixedMatch(sim, f)
                      THEN PodsDetectFrom(ps, i + 1, q, f, DetectKeep(acc, v.id, sim))
                      ELSE PodsDetectFrom(ps, i + 1, q, f,
                             [acc EXCEPT !.examined = Append(@, [id |-> v.id, sim |-> sim])])

\* Pods.detect(emb, f), q being emb as a fixed-point vector
PodsDetectOp(ps, q, f) == PodsDetectFrom(ps, 1, q, f, DetectStart)

\* the test of line 851 on one pod's similarity
AdaptiveMatch(sim, f_score, pod_high, pod_soft) ==
    sim > pod_high \/ (f_score > THETA_HARD /\ sim > pod_soft)

\* the loop of _detect_pod_adaptive from pod i on, unveiled pods examined as
\* the latent ones are
RECURSIVE DetectAdaptiveFromAnyState(_, _, _, _, _, _, _)
DetectAdaptiveFromAnyState(ps, i, q, f_score, pod_high, pod_soft, acc) ==
    IF i > Len(ps) THEN acc
    ELSE LET v == ps[i]
             next(a) == DetectAdaptiveFromAnyState(ps, i + 1, q, f_score, pod_high,
                                                   pod_soft, a)
         IN  IF NormSq(v.emb) = 0 \/ NormSq(q) = 0 THEN next(acc)
             ELSE IF ~SameShape(q, v.emb) THEN [acc EXCEPT !.raised = TRUE]
             ELSE LET sim == Similarity(q, v.emb)
                      seen == [acc EXCEPT !.examined = Append(@, [id |-> v.id, sim |-> sim])]
                  IN  IF AdaptiveMatch(sim, f_score, pod_high, pod_soft)
                      THEN next([seen EXCEPT
                                   !.matches = Append(@, v.id),
                                   !.best = IF acc.best = None \/ sim > Get(acc.best).sim
                                            THEN Some([id |-> v.id, sim |-> sim])
                                            ELSE @])
                      ELSE next(seen)

\* The loop of _detect_pod_adaptive from pod i on.  acc holds best (None or
\* the (id, sim) kept so far), examined (the pods whose similarity was
\* computed) and matches (those that passed the test).  np.dot raises when a
\* latent seed of non-zero norm is not as long as the query.
RECURSIVE DetectAdaptiveFrom(_, _, _, _, _, _, _)
DetectAdaptiveFrom(ps, i, q, f_score, pod_high, pod_soft, acc) ==
    IF i > Len(ps) THEN acc
    ELSE LET v == ps[i]
             next(a) == DetectAdaptiveFrom(ps, i + 1, q, f_score, pod_high, pod_soft, a)
         IN  IF v.state /= "latent" THEN next(acc)
             ELSE IF NormSq(v.emb) = 0 \/ NormSq(q) = 0 THEN next(acc)
             ELSE IF ~SameShape(q, v.emb) THEN [acc EXCEPT !.raised = TRUE]
             ELSE LET sim == Similarity(q, v.emb)
                      seen == [acc EXCEPT !.examined = Append(@, [id |-> v.id, sim |-> sim])]
                  IN  IF AdaptiveMatch(sim, f_score, pod_high, pod_soft)
                      THEN next([seen EXCEPT
                                   !.matches = Append(@, v.id),
                                   !.best = IF acc.best = None \/ sim > Get(acc.best).sim
                                            THEN Some([id |-> v.id, sim |-> sim])
                                            ELSE @])
                      ELSE next(seen)

DetectAdaptiveOp(ps, q, f_score, pod_high, pod_soft) ==
    DetectAdaptiveFrom(ps, 1, q, f_score, pod_high, pod_soft,
                       [raised |-> FALSE, best |-> None, examined |-> <<>>, matches |-> <<>>])

-----------------------------------------------------------------------------
(* RhythmStore (vessel.py 466-643) *)

\* a record that puts the new sample in front of the earlier ones
RhythmRecordOpPrepend(ss, turn_, tau_h, fatigue, status, components, thresholds, events) ==
    <<[turn |-> turn_, tau_h |-> tau_h, fatigue |-> fatigue,
       fatigue_status |-> status, components |-> components,
       thresholds |-> thresholds, events |-> events]>> \o ss

\* RhythmStore.record: the sample appended (the wall-clock "ts" is left out)
RhythmRecordOp(ss, turn_, tau_h, fatigue, status, components, thresholds, events) ==
    Append(ss, [turn |-> turn_, tau_h |-> tau_h, fatigue |-> fatigue,
                fatigue_status |-> status, components |-> components,
                thresholds |-> thresholds, events |-> events])

RECURSIVE MaxSeq(_)
MaxSeq(s) == IF Len(s) = 1 THEN s[1] ELSE Max(Head(s), MaxSeq(Tail(s)))

\* the breathing events of the pair (i-1, i) with a soft onset after every
\* status but soft
PairEventsSoftAfterHard(ss, i) ==
    LET cur == ss[i]
        prv == ss[i - 1]
        delta_tau == cur.tau_h - prv.tau_h
        tempo == IF delta_tau < -1500
                 THEN <<[turn |-> cur.turn, type |-> "pause", val |-> delta_tau]>>
                 ELSE IF delta_tau > 1500
                 THEN <<[turn |-> cur.turn, type |-> "acceleration", val |-> delta_tau]>>
                 ELSE <<>>
        onset == IF cur.fatigue_status = "soft" /\ prv.fatigue_status /= "soft"
                 THEN <<[turn |-> cur.turn, type |-> "soft_fatigue_onset", val |-> cur.fatigue]>>
                 ELSE IF cur.fatigue_status = "hard" /\ prv.fatigue_status /= "hard"
                 THEN <<[turn |-> cur.turn, type |-> "hard_fatigue_onset", val |-> cur.fatigue]>>
                 ELSE <<>>
        tagged == [k \in DOMAIN cur.events |->
                     [turn |-> cur.turn, type |-> cur.events[k], val |-> 0]]
    IN  tempo \o onset \o tagged

\* the breathing events of the pair (i-1, i), in the order the loop appends them
PairEvents(ss, i) ==
    LET cur == ss[i]
        prv == ss[i - 1]
        delta_tau == cur.tau_h - prv.tau_h
        tempo == IF delta_tau < -1500
                 THEN <<[turn |-> cur.turn, type |-> "pause", val |-> delta_tau]>>
                 ELSE IF delta_tau > 1500
                 THEN <<[turn |-> cur.turn, type |-> "acceleration", val |-> delta_tau]>>
                 ELSE <<>>
        onset == IF cur.fatigue_status = "soft" /\ prv.fatigue_status = "fresh"
                 THEN <<[turn |-> cur.turn, type |-> "soft_fatigue_onset", val |-> cur.fatigue]>>
                 ELSE IF cur.fatigue_status = "hard" /\ prv.fatigue_status /= "hard"
                 THEN <<[turn |-> cur.turn, type |-> "hard_fatigue_onset", val |-> cur.fatigue]>>
                 ELSE <<>>
        tagged == [k \in DOMAIN cur.events |->
                     [turn |-> cur.turn, type |-> cur.events[k], val |-> 0]]
    IN  tempo \o onset \o tagged

\* for i in range(1, len(s.samples)): Python's index i is the model's i + 1
RECURSIVE BreathingEvents(_, _)
BreathingEvents(ss, i) ==
    IF i > Len(ss) THEN <<>> ELSE PairEvents(ss, i) \o BreathingEvents(ss, i + 1)

\* an empty signature that reports the neutral pulse 0.5 as its mean
EmptySignatureNeutralTau ==
    [dominant_rhythm |-> "empty", mean_tau_h |-> 5000, curvature_integral |-> 0]

EmptySignature == [dominant_rhythm |-> "empty", mean_tau_h |-> 0, curvature_integral |-> 0]

\* the classification with the fatigue test ahead of the variance test
DominantRhythmFatigueFirst(sum_tau, n, tau_var, f_trend, peak_f) ==
    IF sum_tau < 4000 * n /\ tau_var < 2000000 THEN "reflective"
    ELSE IF sum_tau > 6500 * n THEN "exploratory"
    ELSE IF f_trend = "rising" /\ peak_f > THETA_SOFT THEN "fatiguing"
    ELSE IF tau_var > 3000000 THEN "reflective_with_burst"
    ELSE IF f_trend = "falling" THEN "recovered"
    ELSE "steady"

\* lines 553-565: the dominant rhythm of n samples whose tau_h sum to sum_tau
\* (mean_tau < 0.4 is sum_tau < 0.4 n), tau_var being the variance times Scale^2
DominantRhythm(sum_tau, n, tau_var, f_trend, peak_f) ==
    IF sum_tau < 4000 * n /\ tau_var < 2000000 THEN "reflective"
    ELSE IF sum_tau > 6500 * n THEN "exploratory"
    ELSE IF tau_var > 3000000 THEN "reflective_with_burst"
    ELSE IF f_trend = "rising" /\ peak_f > THETA_SOFT THEN "fatiguing"
    ELSE IF f_trend = "falling" THEN "recovered"
    ELSE "steady"

\* RhythmStore.compute_signature on the samples ss
ComputeSignature(ss) ==
    IF ss = <<>> THEN EmptySignature
    ELSE LET n == Len(ss)
             taus == [k \in 1..n |-> ss[k].tau_h]
             fatigues == [k \in 1..n |-> ss[k].fatigue]
             mean_tau == RDiv(SumSeq(taus), n)
             \* variance times Scale^2
             tau_var == IF n > 1
                        THEN RDiv(SumSeq([k \in 1..n |-> (taus[k] - mean_tau) * (taus[k] - mean_tau)]), n)
                        ELSE 0
             mean_f == RDiv(SumSeq(fatigues), n)
             peak_f == MaxSeq(fatigues)
             mid == n \div 2
             first == SumSeq(SubSeq(fatigues, 1, mid))
             second == SumSeq(SubSeq(fatigues, mid + 1, n))
             \* second/(n-mid) > first/mid + 0.05, cleared of fractions
             f_trend == IF mid > 0 /\ n > mid
                        THEN IF second * mid > first * (n - mid) + 500 * mid * (n - mid)
                             THEN "rising"
                             ELSE IF first * (n - mid) > second * mid + 500 * mid * (n - mid)
                             THEN "falling"
                             ELSE "stable"
                        ELSE "stable"
             curvature == SumSeq([k \in 1..(n - 1) |-> Abs(taus[k + 1] - taus[k])])
             dominant == DominantRhythm(SumSeq(taus), n, tau_var, f_trend, peak_f)
         IN  [mean_tau_h |-> mean_tau,
              tau_h_variance |-> RDiv(tau_var, Scale),
              mean_fatigue |-> mean_f,
              peak_fatigue |-> peak_f,
              fatigue_trend |-> f_trend,
              breathing_events |-> BreathingEvents(ss, 2),
              dominant_rhythm |-> dominant,
              curvature_integral |-> curvature]

\* RhythmStore.save: the rhythm written to <session_id>.rhythm.json, or None
\* when the early return is taken (no session id, or no samples)
RhythmSaveOp(sid_, ss) ==
    IF sid_ = None \/ ss = <<>> THEN None
    ELSE Some([session_id |-> Get(sid_), total_turns |-> Len(ss),
               samples |-> ss, signature |-> ComputeSignature(ss)])

\* RhythmStore.format_for_recapitulation: the lines of the block, each by its
\* kind, or raised (KeyError) when signature[...] names a key that is absent.
\* signature is a non-empty dict here; None and {} return "" before.
FormatForRecapitulation(signature) ==
    LET keys == DOMAIN signature
        get(k, d) == IF k \in keys THEN signature[k] ELSE d
    IN  IF ~({"dominant_rhythm", "mean_tau_h", "tau_h_variance",
              "fatigue_trend", "peak_fatigue"} \subseteq keys)
        THEN [raised |-> TRUE, lines |-> <<>>]
        ELSE LET evs == get("breathing_events", <<>>)
                 shown == SubSeq(evs, 1, Min(6, Len(evs)))
                 ci == get("curvature_integral", 0)
             IN  [raised |-> FALSE,
                  lines |->
                    <<"header", "rhythm", "fatigue">>
                    \o (IF evs /= <<>> THEN <<"events">> ELSE <<>>)
                    \o [k \in DOMAIN shown |-> shown[k].type]
                    \o <<IF ci > 30000 THEN "curvature_high"
                         ELSE IF ci > 15000 THEN "curvature_moderate"
                         ELSE "curvature_low">>
                    \o (IF get("fatigue_trend", "") = "rising"
                           /\ get("peak_fatigue", 0) > THETA_SOFT
                        THEN <<"unresolved">> ELSE <<>>)
                    \o <<"end">>]

-----------------------------------------------------------------------------
(* The prototype FatigueDetector (test_phase05_fatigue.py 19-97).  An
   embedding is a Python list, here a sequence of integers; similarity,
   novelty, rhythm and score are fixed point. *)

window_size == 5
\* the weights 0.4, 0.3, 0.3 in tenths, and the threshold 0.65
alpha == 4
beta == 3
gamma == 3
FATIGUED_ABOVE == 6500

ListDot(a, b) == SumSeq([i \in DOMAIN a |-> a[i] * b[i]])

\* compute_similarity: 0.0 for an empty list, for two lengths and for a zero
\* denominator, the cosine otherwise
ComputeSimilarity(current, previous) ==
    IF current = <<>> \/ previous = <<>> THEN 0
    ELSE IF Len(current) # Len(previous) THEN 0
    ELSE LET denom2 == ListDot(current, current) * ListDot(previous, previous)
         IN  IF denom2 > 0
             THEN RDiv(ListDot(current, previous) * Scale * 1000, ISqrt(denom2 * 1000000))
             ELSE 0

\* a novelty that never looks at the history
ComputeNoveltyIgnoresHistory(eh, current) == Scale

\* compute_novelty: 1 - the mean similarity to the embeddings of the window
ComputeNovelty(eh, current) ==
    IF eh = <<>> THEN Scale
    ELSE Scale - RDiv(SumSeq([i \in DOMAIN eh |-> ComputeSimilarity(current, eh[i])]),
                      Len(eh))

\* compute_rhythm: the second difference of the last three fatigue scores
ComputeRhythm(fh) ==
    IF Len(fh) < 3 THEN 0
    ELSE LET n == Len(fh)
         IN  (fh[n] - fh[n - 1]) - (fh[n - 1] - fh[n - 2])

\* append, then pop(0) when the window is exceeded
WindowPush(h, x) ==
    LET h1 == Append(h, x) IN IF Len(h1) > window_size THEN Tail(h1) ELSE h1

DetectorFresh == [embedding_history |-> <<>>, novelty_history |-> <<>>,
                  fatigue_history |-> <<>>]

\* FatigueDetector.detect on the detector d: the histories after the call and
\* the dict returned.  previous_embed is None or a list; an empty list is
\* falsy, as None is.
DetectOp(d, current_embed, previous_embed) ==
    LET S_t == IF previous_embed # None /\ Get(previous_embed) # <<>>
               THEN ComputeSimilarity(current_embed, Get(previous_embed)) ELSE 0
        N_t == ComputeNovelty(d.embedding_history, current_embed)
        novelty_deficit == Scale - N_t
        R_t == ComputeRhythm(d.fatigue_history)
        fatigue_score ==
            RDiv(alpha * S_t + beta * novelty_deficit + gamma * Max(0, R_t), 10)
    IN  [d |-> [embedding_history |-> WindowPush(d.embedding_history, current_embed),
                novelty_history |-> WindowPush(d.novelty_history, N_t),
                fatigue_history |-> WindowPush(d.fatigue_history, fatigue_score)],
         info |-> [fatigue_score |-> fatigue_score,
                   is_fatigued |-> fatigue_score > FATIGUED_ABOVE,
                   similarity |-> S_t, novelty_deficit |-> novelty_deficit,
                   rhythm |-> R_t, novelty |-> N_t]]

\* a reset that keeps the fatigue history
DetectorResetOpKeepsFatigue(d) ==
    [embedding_history |-> <<>>, novelty_history |-> <<>>,
     fatigue_history |-> d.fatigue_history]

\* FatigueDetector.reset
DetectorResetOp(d) == DetectorFresh

\* history of a run of detect calls: how many since construction or reset,
\* whether each passed one and the same embedding with the embedding of the
\* turn before as previous_embed (None on the first turn), as run_test does,
\* and whether is_fatigued was reported in one of them
StreakFresh == [n |-> 0, same |-> TRUE, tripped |-> FALSE]

StreakAfter(st, embed, prev, last, fatigued) ==
    [n |-> st.n + 1,
     same |-> st.same /\ (IF st.n = 0 THEN prev = None
                          ELSE prev = last /\ prev = Some(embed)),
     tripped |-> st.tripped \/ fatigued]

-----------------------------------------------------------------------------
(* Inputs and bounds *)

\* embeddings the provider returns (ProviderDim long) and the fallback of
\* get_emb (FallbackDim long, unit norm or all zero)
ProviderEmbs == {Vec(ProviderDim, 1, 0), Vec(ProviderDim, 0, 1), Vec(ProviderDim, 0, 0)}
FallbackEmbs == {Vec(FallbackDim, 1, 0)}
UnitEmbs == ProviderEmbs \cup FallbackEmbs

\* Fatigue.update calls accepted between two resets
MaxFed == 7
\* prototype embeddings: two lists at cosine 0.96, and a list of zeros
DetectorEmbs == {<<3, 4>>, <<4, 3>>, <<0, 0>>}
MaxDetects == 7

\* update calls on a PulseEstimator or DirectionTracker instance
MaxCalls == 3

\* len(msg), the timestamps and the tau_h handed to the components in isolation
MsgLens == {0, 600}
TimeStamps == {0, 30, 300}
PulseValues == {2500, 5753, 10000}

\* Pods on its own: the embeddings of pod contents and of queries, the fatigue
\* scores handed to detection
PodSeeds == UnitEmbs \cup {Vec(ProviderDim, 1, 1)}
PodQueries == UnitEmbs \cup {Vec(ProviderDim, 1, 1)}
FatigueValues == {0, 9000}

\* the values of tau modulate_thresholds is applied to on its own: TauPoints
\* steps from 0 to 1
TauPoints == 40
TauGrid == {RDiv(k * Scale, TauPoints) : k \in 0..TauPoints}

\* samples recorded in one rhythm session
MaxSamples == 4

\* what a caller hands to RhythmStore.record on its own
RhythmInputs ==
    {[tau_h |-> 5000, fatigue |-> 0, status |-> "fresh", events |-> <<>>],
     [tau_h |-> 5800, fatigue |-> 3500, status |-> "fresh", events |-> <<"pod_unveiled">>],
     [tau_h |-> 7500, fatigue |-> 7000, status |-> "soft", events |-> <<"soft_fatigue">>],
     [tau_h |-> 3000, fatigue |-> 9000, status |-> "hard",
      events |-> <<"hard_fatigue", "low_alignment">>]}

\* Vessel: the models asked for, speak calls, sessions, pods
AVAILABLE_MODELS == {"llama3", "mistral", "phi3"}
PossessRequests == {"llama3", "gpt4"}
MaxSpeaks == 4
MaxSessions == 2
MaxPods == 2

\* Vessel: the embedding of a message, of a pod's content, of a response; the
\* seconds between two speak calls; len(msg)
SpeakEmbs == UnitEmbs
PodEmbs == {Vec(ProviderDim, 1, 1)}
\* for the turns that surface pods: messages of one length, and seeds that a
\* message matches outright
SurfaceEmbs == {Vec(ProviderDim, 1, 0), Vec(ProviderDim, 0, 1)}
SurfaceSeeds == {Vec(ProviderDim, 1, 0), Vec(ProviderDim, 1, 1)}
ResponseEmbs == {Vec(ProviderDim, 1, 0)}
Latencies == {30}
SpeakLens == {40}

-----------------------------------------------------------------------------
(* State after construction *)

Fresh ==
    /\ fat_e = <<>> /\ fat_v = <<>>
    /\ tau = PulseFresh.tau
    /\ last_time = PulseFresh.last_time
    /\ last_user_emb = PulseFresh.last_user_emb
    /\ prev_user_emb = PulseFresh.prev_user_emb
    /\ tau_dir = None
    /\ pods = <<>>
    /\ samples = <<>>
    /\ session_id = None
    /\ model = None /\ sid = None /\ turn = 0
    /\ fed = <<>>
    /\ calls = 0
    /\ detector = DetectorFresh /\ prev_embed = None /\ streak = StreakFresh
    /\ ret = [op |-> "__init__", raised |-> FALSE, val |-> None]

fatVars == <<fat_e, fat_v, fed>>
histVars == <<calls>>
detVars == <<detector, prev_embed, streak>>
pulseVars == <<tau, last_time, last_user_emb, prev_user_emb>>
vesselVars == <<model, sid, turn>>
rhythmVars == <<samples, session_id>>

Returned(op, val) == [op |-> op, raised |-> FALSE, val |-> val]
Raised(op) == [op |-> op, raised |-> TRUE, val |-> None]

-----------------------------------------------------------------------------
(* Operations of a Fatigue instance *)

FatigueUpdate(e) ==
    /\ inst = "Fatigue"
    /\ Len(fed) < MaxFed
    /\ LET r == FatigueUpdateOp(fat_e, fat_v, e)
       IN  /\ fat_e' = r.e
           /\ fat_v' = r.v
           /\ fed' = IF r.raised THEN fed ELSE Append(fed, e)
           /\ ret' = IF r.raised THEN Raised("Fatigue.update")
                     ELSE Returned("Fatigue.update", None)
    /\ UNCHANGED <<inst, detVars, pulseVars, tau_dir, pods, rhythmVars, vesselVars, histVars>>

FatigueScore ==
    /\ inst = "Fatigue"
    /\ ret' = Returned("Fatigue.score", FatigueScoreOp(fat_e, fat_v))
    /\ UNCHANGED <<inst, detVars, fatVars, pulseVars, tau_dir, pods, rhythmVars, vesselVars, histVars>>

FatigueReset ==
    /\ inst = "Fatigue"
    /\ fat_e' = FatigueResetOp.e
    /\ fat_v' = FatigueResetOp.v
    /\ fed' = <<>>
    /\ ret' = Returned("Fatigue.reset", None)
    /\ UNCHANGED <<inst, detVars, pulseVars, tau_dir, pods, rhythmVars, vesselVars, histVars>>

NextFatigue ==
    \/ \E e \in UnitEmbs : FatigueUpdate(e)
    \/ FatigueScore
    \/ FatigueReset

-----------------------------------------------------------------------------
(* Operations of a PulseEstimator instance *)

PulseState == [tau |-> tau, last_time |-> last_time,
               last_user_emb |-> last_user_emb, prev_user_emb |-> prev_user_emb]

SetPulse(p) ==
    /\ tau' = p.tau
    /\ last_time' = p.last_time
    /\ last_user_emb' = p.last_user_emb
    /\ prev_user_emb' = p.prev_user_emb

PulseUpdate(len, emb, timestamp) ==
    /\ inst = "PulseEstimator"
    /\ calls < MaxCalls
    /\ calls' = calls + 1
    /\ LET r == PulseUpdateOp(PulseState, len, emb, timestamp)
       IN  /\ SetPulse(r.p)
           /\ ret' = IF r.raised THEN Raised("PulseEstimator.update")
                     ELSE Returned("PulseEstimator.update", r.tau_h)
    /\ UNCHANGED <<inst, detVars, fatVars, tau_dir, pods, rhythmVars, vesselVars>>

PulseModulate ==
    /\ inst \in {"PulseEstimator", "modulate_thresholds"}
    /\ ret' = Returned("PulseEstimator.modulate_thresholds", ModulateThresholds(tau))
    /\ UNCHANGED <<inst, detVars, fatVars, pulseVars, tau_dir, pods, rhythmVars, vesselVars, histVars>>

PulseReset ==
    /\ inst = "PulseEstimator"
    /\ SetPulse(PulseResetOp)
    /\ ret' = Returned("PulseEstimator.reset", None)
    /\ UNCHANGED <<inst, detVars, fatVars, tau_dir, pods, rhythmVars, vesselVars, histVars>>

NextPulse ==
    \/ \E len \in MsgLens, emb \in UnitEmbs, t \in TimeStamps : PulseUpdate(len, emb, t)
    \/ PulseModulate
    \/ PulseReset

-----------------------------------------------------------------------------
(* Operations of a DirectionTracker instance *)

DirectionUpdate(emb, tau_h) ==
    /\ inst = "DirectionTracker"
    /\ calls < MaxCalls
    /\ calls' = calls + 1
    /\ LET r == DirectionUpdateOp(tau_dir, emb, tau_h)
       IN  /\ tau_dir' = r.tau_dir
           /\ ret' = IF r.raised THEN Raised("DirectionTracker.update")
                     ELSE Returned("DirectionTracker.update", None)
    /\ UNCHANGED <<inst, detVars, fatVars, pulseVars, pods, rhythmVars, vesselVars>>

DirectionAlignment(emb) ==
    /\ inst = "DirectionTracker"
    /\ LET r == AlignmentOp(tau_dir, emb)
       IN  ret' = IF r.raised THEN Raised("DirectionTracker.alignment")
                  ELSE Returned("DirectionTracker.alignment", [emb |-> emb, val |-> r.val])
    /\ UNCHANGED <<inst, detVars, fatVars, pulseVars, tau_dir, pods, rhythmVars, vesselVars, histVars>>

DirectionReset ==
    /\ inst = "DirectionTracker"
    /\ tau_dir' = DirectionResetOp
    /\ ret' = Returned("DirectionTracker.reset", None)
    /\ UNCHANGED <<inst, detVars, fatVars, pulseVars, pods, rhythmVars, vesselVars, histVars>>

NextDirection ==
    \/ \E emb \in UnitEmbs, t \in PulseValues : DirectionUpdate(emb, t)
    \/ \E emb \in UnitEmbs : DirectionAlignment(emb)
    \/ DirectionReset

-----------------------------------------------------------------------------
(* Operations of a RhythmStore instance *)

RhythmStartSession(m, id) ==
    /\ inst = "RhythmStore"
    /\ samples' = <<>>
    /\ session_id' = Some(id)
    /\ ret' = Returned("RhythmStore.start_session", None)
    /\ UNCHANGED <<inst, detVars, fatVars, pulseVars, tau_dir, pods, vesselVars, histVars>>

RhythmRecord(in) ==
    /\ inst = "RhythmStore"
    /\ Len(samples) < MaxSamples
    /\ samples' = RhythmRecordOp(samples, Len(samples) + 1, in.tau_h, in.fatigue,
                                 in.status, NoComponents, ModulateThresholds(in.tau_h),
                                 in.events)
    /\ ret' = Returned("RhythmStore.record", None)
    /\ UNCHANGED <<inst, detVars, fatVars, pulseVars, tau_dir, pods, session_id, vesselVars, histVars>>

RhythmComputeSignature ==
    /\ inst = "RhythmStore"
    /\ ret' = Returned("RhythmStore.compute_signature", ComputeSignature(samples))
    /\ UNCHANGED <<inst, detVars, fatVars, pulseVars, tau_dir, pods, rhythmVars, vesselVars, histVars>>

\* format_for_recapitulation(compute_signature())
RhythmRecapitulate ==
    /\ inst = "RhythmStore"
    /\ LET r == FormatForRecapitulation(ComputeSignature(samples))
       IN  ret' = IF r.raised THEN Raised("RhythmStore.format_for_recapitulation")
                  ELSE Returned("RhythmStore.format_for_recapitulation", r.lines)
    /\ UNCHANGED <<inst, detVars, fatVars, pulseVars, tau_dir, pods, rhythmVars, vesselVars, histVars>>

\* RhythmStore.save: nothing is written without a session id or without
\* samples; otherwise the rhythm file holds the samples and their signature
RhythmSave ==
    /\ inst = "RhythmStore"
    /\ ret' = Returned("RhythmStore.save", RhythmSaveOp(session_id, samples))
    /\ UNCHANGED <<inst, detVars, fatVars, pulseVars, tau_dir, pods, rhythmVars, vesselVars, histVars>>

NextRhythm ==
    \/ \E m \in AVAILABLE_MODELS : RhythmStartSession(m, 1)
    \/ \E in \in RhythmInputs : RhythmRecord(in)
    \/ RhythmComputeSignature
    \/ RhythmRecapitulate
    \/ RhythmSave

-----------------------------------------------------------------------------
(* Operations of a Pods registry, and _detect_pod_adaptive on its pod map *)

PodsCreate(emb) ==
    /\ inst = "Pods"
    /\ Len(pods) < MaxPods
    /\ pods' = PodsCreateOp(pods, emb)
    /\ ret' = Returned("Pods.create", Len(pods'))
    /\ UNCHANGED <<inst, detVars, fatVars, pulseVars, tau_dir, rhythmVars, vesselVars, histVars>>

\* what a detection returns, with what it was asked
Detected(op, r, q, f, pod_high, pod_soft) ==
    IF r.raised THEN Raised(op)
    ELSE Returned(op, [best |-> r.best, examined |-> r.examined, matches |-> r.matches,
                       query |-> q, f |-> f, pod_high |-> pod_high, pod_soft |-> pod_soft])

PodsDetect(emb, f) ==
    /\ inst = "Pods"
    /\ ret' = Detected("Pods.detect", PodsDetectOp(pods, VMul(Scale, emb), f),
                       VMul(Scale, emb), f, POD_THETA_HIGH, POD_THETA_SOFT)
    /\ UNCHANGED <<inst, detVars, fatVars, pulseVars, tau_dir, pods, rhythmVars, vesselVars, histVars>>

\* _detect_pod_adaptive(emb, f_score, pod_high, pod_soft) with the thresholds
\* modulate_thresholds gives at the pulse t
PodsDetectAdaptive(emb, f, t) ==
    /\ inst = "Pods"
    /\ LET th == ModulateThresholds(t)
       IN  ret' = Detected("Vessel._detect_pod_adaptive",
                           DetectAdaptiveOp(pods, VMul(Scale, emb), f, th.pod_high, th.pod_soft),
                           VMul(Scale, emb), f, th.pod_high, th.pod_soft)
    /\ UNCHANGED <<inst, detVars, fatVars, pulseVars, tau_dir, pods, rhythmVars, vesselVars, histVars>>

\* the state of the pod pid in ps, "unknown" when ps has no such pod
PodState(ps, pid) ==
    IF \E i \in DOMAIN ps : ps[i].id = pid
    THEN ps[CHOOSE i \in DOMAIN ps : ps[i].id = pid].state
    ELSE "unknown"

PodsUnveil(pid) ==
    /\ inst = "Pods"
    /\ pods' = PodsUnveilOp(pods, pid)
    /\ ret' = Returned("Pods.unveil", [pid |-> pid, before |-> PodState(pods, pid)])
    /\ UNCHANGED <<inst, detVars, fatVars, pulseVars, tau_dir, rhythmVars, vesselVars, histVars>>

NextPods ==
    \/ \E emb \in PodSeeds : PodsCreate(emb)
    \/ \E emb \in PodQueries, f \in FatigueValues : PodsDetect(emb, f)
    \/ \E emb \in PodQueries, f \in FatigueValues, t \in PulseValues :
          PodsDetectAdaptive(emb, f, t)
    \/ \E pid \in 1..(MaxPods + 1) : PodsUnveil(pid)

\* one component constructed on its own
-----------------------------------------------------------------------------
(* Operations of a prototype FatigueDetector and of the loop that drives it *)

\* detector.detect(embed, prev); prev_embed = embed.  prev is None or the
\* caller's prev_embed.
DetectorDetect(embed, prev) ==
    /\ inst = "FatigueDetector"
    /\ calls < MaxDetects
    /\ calls' = calls + 1
    /\ LET r == DetectOp(detector, embed, prev)
       IN  /\ detector' = r.d
           /\ streak' = StreakAfter(streak, embed, prev, prev_embed, r.info.is_fatigued)
           /\ ret' = Returned("FatigueDetector.detect",
                              [embed |-> embed, prev |-> prev, info |-> r.info])
    /\ prev_embed' = Some(embed)
    /\ UNCHANGED <<inst, fatVars, pulseVars, tau_dir, pods, rhythmVars, vesselVars>>

DetectorReset ==
    /\ inst = "FatigueDetector"
    /\ detector' = DetectorResetOp(detector)
    /\ streak' = StreakFresh
    /\ ret' = Returned("FatigueDetector.reset", None)
    /\ UNCHANGED <<inst, fatVars, pulseVars, tau_dir, pods, rhythmVars, vesselVars,
                   histVars, prev_embed>>

NextDetector ==
    \/ \E embed \in DetectorEmbs, prev \in {None, prev_embed} : DetectorDetect(embed, prev)
    \/ DetectorReset

InitComponent ==
    /\ inst \in {"Fatigue", "PulseEstimator", "DirectionTracker", "RhythmStore", "Pods"}
    /\ Fresh

\* modulate_thresholds as a function of s.tau: an estimator whose tau is any
\* value of [0, 1]
InitModulate ==
    /\ inst = "modulate_thresholds"
    /\ tau \in TauGrid
    /\ last_time = None /\ last_user_emb = None /\ prev_user_emb = None
    /\ fat_e = <<>> /\ fat_v = <<>> /\ fed = <<>>
    /\ tau_dir = None /\ pods = <<>>
    /\ samples = <<>> /\ session_id = None
    /\ model = None /\ sid = None /\ turn = 0
    /\ calls = 0
    /\ detector = DetectorFresh /\ prev_embed = None /\ streak = StreakFresh
    /\ ret = [op |-> "__init__", raised |-> FALSE, val |-> None]

InitUnit == InitComponent \/ InitModulate

NextUnit == NextFatigue \/ NextPulse \/ NextDirection \/ NextRhythm \/ NextPods

SpecUnit == InitUnit /\ [][NextUnit]_vars

Spec == SpecUnit

\* the prototype detector alone, as the tests of test_phase05_fatigue.py use it
InitDetector == inst = "FatigueDetector" /\ Fresh

SpecDetector == InitDetector /\ [][NextDetector]_vars

-----------------------------------------------------------------------------
(* Vessel (vessel.py 682-862) and the handlers that reach it (1292-1328) *)

\* where speak stops, and what it has computed by then
SpeakRaised(at) == [op |-> "Vessel.speak", raised |-> TRUE, val |-> [at |-> at]]

\* the events of lines 811-815
TurnEvents(unveiled, f_status, alignment) ==
    (IF unveiled THEN <<"pod_unveiled">> ELSE <<>>)
    \o (IF f_status = "hard" THEN <<"hard_fatigue">>
        ELSE IF f_status = "soft" THEN <<"soft_fatigue">> ELSE <<>>)
    \o (IF alignment < 3000 THEN <<"low_alignment">> ELSE <<>>)

\* Vessel.possess with every reset of line 701 but pulse.reset()
PossessResetsNoPulse == [fatigue |-> FatigueResetOp, pulse |-> PulseState,
                         direction |-> DirectionResetOp, turn |-> 0]

\* line 701: fatigue.reset(); pulse.reset(); direction.reset(); turn = 0
PossessResets == [fatigue |-> FatigueResetOp, pulse |-> PulseResetOp,
                  direction |-> DirectionResetOp, turn |-> 0]

\* Vessel.possess with the resets of line 701 ahead of the test of line 695
PossessResetsThenRefuses(m) ==
    /\ inst = "Vessel"
    /\ fat_e' = PossessResets.fatigue.e
    /\ fat_v' = PossessResets.fatigue.v
    /\ fed' = <<>>
    /\ SetPulse(PossessResets.pulse)
    /\ tau_dir' = PossessResets.direction
    /\ turn' = PossessResets.turn
    /\ IF m \notin AVAILABLE_MODELS
       THEN /\ ret' = Returned("Vessel.possess", [error |-> TRUE])
            /\ UNCHANGED <<rhythmVars, model, sid>>
       ELSE /\ (IF sid = None THEN 0 ELSE Get(sid)) < MaxSessions
            /\ model' = Some(m)
            /\ sid' = Some(IF sid = None THEN 1 ELSE Get(sid) + 1)
            /\ samples' = <<>>
            /\ session_id' = sid'
            /\ ret' = Returned("Vessel.possess", [error |-> FALSE, session_id |-> Get(sid')])
    /\ UNCHANGED <<inst, detVars, pods, histVars>>

\* Vessel.possess(m).  rhythm.save writes only sessions that have samples, so
\* the signature read back at line 733 has every key and line 735 returns.
\* The ledger's session ids are numbered here.
Possess(m) ==
    /\ inst = "Vessel"
    /\ IF m \notin AVAILABLE_MODELS
       THEN /\ ret' = Returned("Vessel.possess", [error |-> TRUE])
            /\ UNCHANGED <<fatVars, pulseVars, tau_dir, rhythmVars, vesselVars, histVars>>
       ELSE /\ (IF sid = None THEN 0 ELSE Get(sid)) < MaxSessions
            /\ model' = Some(m)
            /\ fat_e' = PossessResets.fatigue.e
            /\ fat_v' = PossessResets.fatigue.v
            /\ fed' = <<>>
            /\ SetPulse(PossessResets.pulse)
            /\ tau_dir' = PossessResets.direction
            /\ turn' = PossessResets.turn
            /\ UNCHANGED histVars
            /\ sid' = Some(IF sid = None THEN 1 ELSE Get(sid) + 1)
            /\ samples' = <<>>
            /\ session_id' = sid'
            /\ ret' = Returned("Vessel.possess", [error |-> FALSE, session_id |-> Get(sid')])
    /\ UNCHANGED <<inst, detVars, pods>>

\* api_reset
ApiReset ==
    /\ inst = "Vessel"
    /\ fat_e' = FatigueResetOp.e
    /\ fat_v' = FatigueResetOp.v
    /\ fed' = <<>>
    /\ turn' = 0
    /\ ret' = Returned("api_reset", None)
    /\ UNCHANGED <<inst, detVars, pulseVars, tau_dir, pods, rhythmVars, model, sid, histVars>>

\* api_pod: Pods.create embeds the content
ApiPod(emb) ==
    /\ inst = "Vessel"
    /\ Len(pods) < MaxPods
    /\ pods' = PodsCreateOp(pods, emb)
    /\ ret' = Returned("api_pod", Len(pods'))
    /\ UNCHANGED <<inst, detVars, fatVars, pulseVars, tau_dir, rhythmVars, vesselVars, histVars>>

\* Vessel.speak(msg): emb is get_emb(msg), len is len(msg), dt the seconds since
\* the previous pulse update (only differences of t0 are used), resp is
\* get_emb(raw[:500]).  A raise leaves what the earlier lines have written.
Speak(emb, len, dt, resp) ==
    /\ inst = "Vessel"
    /\ IF model = None
       THEN /\ ret' = Returned("Vessel.speak", [error |-> TRUE])
            /\ UNCHANGED <<fatVars, pulseVars, tau_dir, pods, rhythmVars, vesselVars, histVars>>
       ELSE
       /\ calls < MaxSpeaks
       /\ calls' = calls + 1
       /\ turn' = turn + 1
       /\ UNCHANGED <<model, sid, session_id>>
       /\ LET t0 == (IF last_time = None THEN 0 ELSE Get(last_time)) + dt
              fu == FatigueUpdateOp(fat_e, fat_v, emb)
              sc == FatigueScoreOp(fu.e, fu.v)
              pu == PulseUpdateOp(PulseState, len, emb, t0)
              th == ModulateThresholds(pu.p.tau)
              du == DirectionUpdateOp(tau_dir, emb, pu.tau_h)
              f_status == StatusOf(sc.f, th.soft, th.hard)
              me == ModulateEmbeddingOp(du.tau_dir, emb)
              det == DetectAdaptiveOp(pods, me.val, sc.f, th.pod_high, th.pod_soft)
              unveiled == det.best /= None
              pods1 == IF unveiled THEN PodsUnveilOp(pods, Get(det.best).id) ELSE pods
              al == AlignmentOp(du.tau_dir, resp)
              events == TurnEvents(unveiled, f_status, al.val)
          IN  /\ fat_e' = fu.e
              /\ fat_v' = fu.v
              /\ fed' = IF fu.raised THEN fed ELSE Append(fed, emb)
              /\ IF fu.raised
                 THEN /\ ret' = SpeakRaised("Fatigue.update")
                      /\ UNCHANGED <<pulseVars, tau_dir, pods, samples>>
                 ELSE IF pu.raised
                 THEN /\ ret' = SpeakRaised("PulseEstimator.update")
                      /\ UNCHANGED <<pulseVars, tau_dir, pods, samples>>
                 ELSE IF du.raised
                 THEN /\ ret' = SpeakRaised("DirectionTracker.update")
                      /\ SetPulse(pu.p)
                      /\ UNCHANGED <<tau_dir, pods, samples>>
                 ELSE IF me.raised \/ det.raised
                 THEN /\ ret' = SpeakRaised("_detect_pod_adaptive")
                      /\ SetPulse(pu.p)
                      /\ tau_dir' = du.tau_dir
                      /\ UNCHANGED <<pods, samples>>
                 ELSE IF al.raised
                 THEN /\ ret' = SpeakRaised("DirectionTracker.alignment")
                      /\ SetPulse(pu.p)
                      /\ tau_dir' = du.tau_dir
                      /\ pods' = pods1
                      /\ UNCHANGED samples
                 ELSE /\ SetPulse(pu.p)
                      /\ tau_dir' = du.tau_dir
                      /\ pods' = pods1
                      /\ samples' = RhythmRecordOp(samples, turn', pu.tau_h, sc.f, f_status,
                                                   sc.comp, th, events)
                      /\ ret' = Returned("Vessel.speak",
                                   [error |-> FALSE, turn |-> turn',
                                    fatigue |-> [score |-> sc.f, status |-> f_status,
                                                fixed |-> sc.st],
                                    tau_h |-> pu.tau_h, thresholds |-> th,
                                    query |-> me.val, latent |-> pods,
                                    examined |-> det.examined, matches |-> det.matches,
                                    pod |-> det.best, alignment |-> al.val])
    /\ UNCHANGED <<inst, detVars>>

NextVessel ==
    \/ \E m \in PossessRequests : Possess(m)
    \/ \E emb \in SpeakEmbs, len \in SpeakLens, dt \in Latencies, resp \in ResponseEmbs :
          Speak(emb, len, dt, resp)
    \/ ApiReset
    \/ \E emb \in PodEmbs : ApiPod(emb)

InitVessel == inst = "Vessel" /\ Fresh

\* the Vessel with seeds and messages chosen so that pods are surfaced early
\* and turns follow the surfacing
NextSurface ==
    \/ \E m \in PossessRequests : Possess(m)
    \/ \E emb \in SurfaceEmbs, len \in SpeakLens, dt \in Latencies, resp \in ResponseEmbs :
          Speak(emb, len, dt, resp)
    \/ ApiReset
    \/ \E emb \in SurfaceSeeds : ApiPod(emb)

SpecSurface == InitVessel /\ [][NextSurface]_vars

SpecVessel == InitVessel /\ [][NextVessel]_vars

-----------------------------------------------------------------------------
(* Claims about the components in isolation (SpecUnit) *)

\* C1 as stated: the velocity history has exactly max(0, len(e) - 1) entries
\* and neither history holds more than W entries.
C1_VelocityOneShorter ==
    /\ Len(fat_v) = Max(0, Len(fat_e) - 1)
    /\ Len(fat_e) <= W
    /\ Len(fat_v) <= W

\* C1 amended: after n accepted updates since construction or the last reset
\* the embedding history has min(W, n) entries and the velocity history
\* min(W, max(0, n - 1)): one shorter only until the window is full, W from
\* the (W+1)-th update on.  Neither history holds more than W entries.
C1_HistoriesCapped ==
    inst = "Fatigue" =>
        /\ Len(fat_e) = Min(W, Len(fed))
        /\ Len(fat_v) = Min(W, Max(0, Len(fed) - 1))
        /\ Len(fat_e) <= W
        /\ Len(fat_v) <= W

C1_Witness == inst = "Fatigue" /\ Len(fed) > W /\ Len(fat_e) = W /\ Len(fat_v) = W

AllSame(s) == \A i \in DOMAIN s : s[i] = s[1]

\* the histories of a fresh Fatigue after k updates with the embedding e
RECURSIVE FedRepeatedly(_, _)
FedRepeatedly(e, k) ==
    IF k = 0 THEN [raised |-> FALSE, e |-> <<>>, v |-> <<>>]
    ELSE LET h == FedRepeatedly(e, k - 1) IN FatigueUpdateOp(h.e, h.v, e)

\* C2 as stated: with the same non-zero embedding fed on every turn, the score
\* of a turn is strictly above the score of the turn before, it is above 0.68
\* from the 4th turn on, and the status is "hard" once further repetitions no
\* longer change the histories.
C2_RepetitionRisesToHard ==
    (/\ inst = "Fatigue"
     /\ ret.op = "Fatigue.score"
     /\ Len(fed) >= 2
     /\ AllSame(fed)
     /\ NormSq(fed[1]) > 0)
    => LET before == FedRepeatedly(fed[1], Len(fed) - 1)
           again == FatigueUpdateOp(fat_e, fat_v, fed[1])
       IN  /\ ret.val.f > FatigueScoreOp(before.e, before.v).f
           /\ (Len(fed) >= 4 => ret.val.f > THETA_SOFT)
           /\ (again.e = fat_e /\ again.v = fat_v => ret.val.st = "hard")

IsUnit(v) == Abs(NormSq(v) - Scale * Scale) <= 4 * Scale

\* C5 as stated: whenever the sustained direction is set, it is a unit vector.
C5_DirectionIsUnit ==
    (inst = "DirectionTracker" /\ tau_dir /= None) => IsUnit(Get(tau_dir))

\* C8: right after reset() a Fatigue, PulseEstimator or DirectionTracker is in
\* the state of a freshly constructed instance: empty histories, tau 0.5, no
\* timestamp, no embeddings, no direction.
C8_ResetRestoresFresh ==
    /\ ret.op = "Fatigue.reset" => fat_e = <<>> /\ fat_v = <<>>
    /\ ret.op = "PulseEstimator.reset" => PulseState = PulseFresh
    /\ ret.op = "DirectionTracker.reset" => tau_dir = None

C8_Witness ==
    /\ ret.op = "PulseEstimator.reset"
    /\ calls >= 2

\* C10: score() returns fatigue 0, no components and status "fresh" whenever
\* fewer than 2 embeddings were observed since construction or the last reset.
C10_ShortHistoryScoresZero ==
    (inst = "Fatigue" /\ ret.op = "Fatigue.score" /\ Len(fed) < 2) =>
        /\ ret.val.f = 0
        /\ ret.val.comp.empty
        /\ ret.val.st = "fresh"

C10_Witness == inst = "Fatigue" /\ ret.op = "Fatigue.score" /\ Len(fed) = 1

\* the tags handed to record for sample i, and the breathing events of its turn
\* that carry the tag t
TagCount(evs, t) == Cardinality({k \in DOMAIN evs : evs[k] = t})
EventCount(bes, turn_, t) ==
    Cardinality({k \in DOMAIN bes : bes[k].turn = turn_ /\ bes[k].type = t})

\* C6 as stated: breathing_events holds, for every recorded sample including
\* the first, one entry for each event tag passed to record for that sample.
C6_EveryTagPassedThrough ==
    (inst = "RhythmStore" /\ ret.op = "RhythmStore.compute_signature" /\ samples /= <<>>)
    => \A i \in DOMAIN samples :
         \A k \in DOMAIN samples[i].events :
            EventCount(ret.val.breathing_events, samples[i].turn, samples[i].events[k])
              = TagCount(samples[i].events, samples[i].events[k])

\* C7 as stated: format_for_recapitulation(compute_signature()) returns a text
\* block for every sample sequence, the empty one included; it never raises.
C7_RecapitulationNeverRaises ==
    ret.op = "RhythmStore.format_for_recapitulation" => ~ret.raised

-----------------------------------------------------------------------------
(* Claims about the Vessel (SpecVessel) *)

SpeakReturned == ret.op = "Vessel.speak" /\ ~ret.raised /\ ~ret.val.error

\* C3 as stated: in every turn a latent pod with non-zero seed matches exactly
\* when its similarity to the modulated query exceeds the turn's modulated
\* podHigh, or the turn's fatigue score exceeds the turn's modulated hard
\* threshold and the similarity exceeds the modulated podSoft.
C3_MatchUsesModulatedHard ==
    SpeakReturned =>
      \A k \in DOMAIN ret.val.examined :
         LET x == ret.val.examined[k]
             th == ret.val.thresholds
         IN  (\E j \in DOMAIN ret.val.matches : ret.val.matches[j] = x.id)
             <=> (x.sim > th.pod_high
                  \/ (ret.val.fatigue.score > th.hard /\ x.sim > th.pod_soft))

\* C4 as stated: whatever embeddings the provider hands to a session, speak
\* gets through Fatigue.update, Fatigue.score, PulseEstimator.update and
\* DirectionTracker.update without a raise.
C4_ScoringNeverRaises ==
    (ret.op = "Vessel.speak" /\ ret.raised)
    => ret.val.at \notin {"Fatigue.update", "PulseEstimator.update",
                          "DirectionTracker.update"}

\* C9: after every successful possess the fatigue, pulse and direction state
\* are fresh, the turn counter is 0 and a rhythm session with no samples is
\* open under the new session id.
C9_PossessResetsSession ==
    (ret.op = "Vessel.possess" /\ ~ret.val.error)
    => /\ fat_e = <<>> /\ fat_v = <<>>
       /\ PulseState = PulseFresh
       /\ tau_dir = None
       /\ turn = 0
       /\ samples = <<>>
       /\ sid /= None /\ session_id = sid

\* a second possess, after two or more turns were spoken
C9_Witness ==
    /\ ret.op = "Vessel.possess" /\ ~ret.val.error
    /\ calls >= 2 /\ sid = Some(2)

\* the status that belongs to the score f under the thresholds soft and hard
StatusIs(st, f, soft, hard) ==
    /\ st = "hard" <=> f > hard
    /\ st = "soft" <=> (f > soft /\ ~(f > hard))
    /\ st = "fresh" <=> ~(f > soft)

\* C11: in every turn the status Fatigue.score returns is the one of the score
\* under the default thresholds 0.68/0.84, and the status speak reports is the
\* one of the score under the turn's pulse-modulated thresholds: "hard" exactly
\* when strictly above hard, "soft" exactly when strictly above soft and not
\* above hard, "fresh" otherwise.
C11_StatusFollowsThresholds ==
    SpeakReturned =>
      /\ StatusIs(ret.val.fatigue.fixed, ret.val.fatigue.score, THETA_SOFT, THETA_HARD)
      /\ StatusIs(ret.val.fatigue.status, ret.val.fatigue.score,
                  ret.val.thresholds.soft, ret.val.thresholds.hard)

\* a turn that is hard under the modulated thresholds and soft under the defaults
C11_Witness ==
    /\ SpeakReturned
    /\ ret.val.fatigue.status = "hard"
    /\ ret.val.fatigue.fixed = "soft"

\* C12: after any sequence of PulseEstimator.update and reset calls, whatever
\* the message lengths, embeddings and timestamps (going backwards included),
\* the pulse estimate tau is in (0, 1].
C12_TauInUnitInterval ==
    inst = "PulseEstimator" => (tau > 0 /\ tau <= Scale)

\* an update whose timestamp lies before the one of the update before it
C12_Witness ==
    /\ inst = "PulseEstimator"
    /\ ret.op = "PulseEstimator.update" /\ ~ret.raised
    /\ calls >= 2
    /\ last_time = Some(0)
    /\ tau > 7000

\* C13: modulate_thresholds is monotonic in tau.  What it returns at tau is
\* compared with what it returns at every larger tau of [0, 1]: soft, hard
\* and podHigh do not rise, podSoft does not fall; and from tau = 0 to
\* tau = 1 the first three fall and podSoft rises, strictly.
C13_ThresholdsMonotonic ==
    (ret.op = "PulseEstimator.modulate_thresholds" /\ ~ret.raised)
    => /\ \A t2 \in TauGrid :
            t2 > tau =>
              LET a == ret.val
                  b == ModulateThresholds(t2)
              IN  /\ b.soft <= a.soft
                  /\ b.hard <= a.hard
                  /\ b.pod_high <= a.pod_high
                  /\ b.pod_soft >= a.pod_soft
       /\ tau = 0 =>
              LET a == ret.val
                  b == ModulateThresholds(Scale)
              IN  /\ b.soft < a.soft
                  /\ b.hard < a.hard
                  /\ b.pod_high < a.pod_high
                  /\ b.pod_soft > a.pod_soft

C13_Witness ==
    /\ inst = "modulate_thresholds"
    /\ ret.op = "PulseEstimator.modulate_thresholds"
    /\ tau = 0

-----------------------------------------------------------------------------
(* Claims about the pod registry (SpecUnit) *)

DetectionReturned ==
    /\ inst = "Pods"
    /\ ret.op \in {"Pods.detect", "Vessel._detect_pod_adaptive"}
    /\ ~ret.raised

\* C14: whatever the pod map, the query, the fatigue score and the thresholds,
\* the pod that Pods.detect or _detect_pod_adaptive returns is latent.
C14_DetectedPodIsLatent ==
    (DetectionReturned /\ ret.val.best /= None)
    => PodState(pods, Get(ret.val.best).id) = "latent"

\* Pods.detect returns a pod while an unveiled pod has the same seed
C14_Witness ==
    /\ DetectionReturned
    /\ ret.op = "Pods.detect"
    /\ ret.val.best /= None
    /\ \E i, j \in DOMAIN pods :
          /\ pods[i].state = "unveiled"
          /\ pods[j].id = Get(ret.val.best).id
          /\ pods[i].emb = pods[j].emb

\* C15: unveil is one-way.  In every step a pod that is unveiled stays in the
\* map and stays unveiled, whichever operation the step is; unveil does not
\* raise and leaves a known pod unveiled; unveil on a pod that is already
\* unveiled, or on an unknown id, leaves the pod map as it was.
C15_UnveilOneWay ==
    [][/\ \A i \in DOMAIN pods :
             pods[i].state = "unveiled"
             => /\ i \in DOMAIN pods'
                /\ pods'[i].id = pods[i].id
                /\ pods'[i].state = "unveiled"
       /\ ret'.op = "Pods.unveil"
          => /\ ~ret'.raised
             /\ PodState(pods', ret'.val.pid) =
                   (IF ret'.val.before = "unknown" THEN "unknown" ELSE "unveiled")
             /\ ret'.val.before \in {"unveiled", "unknown"} => pods' = pods
      ]_vars

\* a second unveil of the same pod
C15_Witness ==
    /\ inst = "Pods"
    /\ ret.op = "Pods.unveil"
    /\ ret.val.before = "unveiled"

\* the similarity detection computes for pod i of the map, and whether the pod
\* passes the test of the detection that returned
SimOfPod(i) ==
    IF ret.op = "Pods.detect" THEN DetectSimilarity(ret.val.query, pods[i].emb)
    ELSE Similarity(ret.val.query, pods[i].emb)

PodMatches(i) ==
    /\ pods[i].state = "latent"
    /\ IF ret.op = "Pods.detect"
       THEN FixedMatch(SimOfPod(i), ret.val.f)
       ELSE /\ NormSq(ret.val.query) > 0
            /\ NormSq(pods[i].emb) > 0
            /\ AdaptiveMatch(SimOfPod(i), ret.val.f, ret.val.pod_high, ret.val.pod_soft)

MatchingPods == {i \in DOMAIN pods : PodMatches(i)}

\* C16: detection returns null exactly when no latent pod matches; otherwise
\* it returns one matching latent pod, with its similarity, and no matching
\* latent pod has a greater similarity.
C16_BestMatchReturned ==
    DetectionReturned =>
      /\ ret.val.best = None <=> MatchingPods = {}
      /\ ret.val.best /= None =>
           /\ \E i \in MatchingPods :
                 /\ pods[i].id = Get(ret.val.best).id
                 /\ SimOfPod(i) = Get(ret.val.best).sim
           /\ \A j \in MatchingPods : Get(ret.val.best).sim >= SimOfPod(j)

\* Pods.detect has two matching pods and returns the later one, of greater
\* similarity
C16_Witness ==
    /\ DetectionReturned
    /\ ret.op = "Pods.detect"
    /\ Cardinality(MatchingPods) = 2
    /\ Get(ret.val.best).id = 2
    /\ SimOfPod(2) > SimOfPod(1)

-----------------------------------------------------------------------------
(* Claims about the direction tracker (SpecUnit) *)

AlignmentReturned ==
    /\ inst = "DirectionTracker"
    /\ ret.op = "DirectionTracker.alignment"
    /\ ~ret.raised

\* the one update made so far initialised the direction with the embedding
\* that alignment was then asked about
InitialisedWithChecked ==
    /\ calls = 1
    /\ tau_dir = Some(Normalize(VMul(Scale, ret.val.emb)))

-----------------------------------------------------------------------------
(* Claims about the rhythm signature (SpecUnit) *)

SignatureReturned ==
    /\ inst = "RhythmStore"
    /\ ret.op = "RhythmStore.compute_signature"
    /\ ~ret.raised

\* the sum of the fatigue values of the samples lo..hi
FatigueSum(lo, hi) == SumSeq([k \in 1..(hi - lo + 1) |-> samples[lo + k - 1].fatigue])

\* the trend of the recorded fatigue values: the halves are the first
\* floor(n/2) values and the rest, their means compared with a margin of 0.05
\* (a/p > b/q + 0.05 cleared of fractions)
TrendOfSamples ==
    LET n == Len(samples)
        p == n \div 2
        q == n - p
        a == IF p > 0 THEN FatigueSum(1, p) ELSE 0
        b == IF n > 0 THEN FatigueSum(p + 1, n) ELSE 0
    IN  IF n < 2 THEN "stable"
        ELSE IF b * p > a * q + 500 * p * q THEN "rising"
        ELSE IF a * q > b * p + 500 * p * q THEN "falling"
        ELSE "stable"

\* C18 as stated: fatigue_trend is "rising" exactly when the mean of the second
\* half exceeds the mean of the first half (split at floor(len/2)) by more than
\* 0.05, "falling" exactly when the first exceeds the second by more than 0.05,
\* and "stable" otherwise, for every session, those with fewer than 2 samples
\* included.
C18_TrendOfEverySession ==
    SignatureReturned =>
      /\ "fatigue_trend" \in DOMAIN ret.val
      /\ ret.val.fatigue_trend = TrendOfSamples

\* how many onset events of the type t the pair (i-1, i) is due
OnsetDue(i, t) ==
    LET cur == samples[i].fatigue_status
        prv == samples[i - 1].fatigue_status
    IN  IF t = "hard_fatigue_onset" THEN (IF cur = "hard" /\ prv /= "hard" THEN 1 ELSE 0)
        ELSE (IF cur = "soft" /\ prv = "fresh" THEN 1 ELSE 0)

\* C19: for each pair of consecutive samples (i-1, i) compute_signature emits
\* one hard_fatigue_onset event exactly when sample i is hard and sample i-1
\* is not, one soft_fatigue_onset event exactly when sample i is soft and
\* sample i-1 is fresh, and no onset event otherwise (none for the first
\* sample); the events come in the order of the samples.
C19_OnsetEvents ==
    (SignatureReturned /\ samples /= <<>>) =>
      LET be == ret.val.breathing_events
      IN  /\ \A t \in {"hard_fatigue_onset", "soft_fatigue_onset"} :
               /\ EventCount(be, samples[1].turn, t) = 0
               /\ \A i \in 2..Len(samples) :
                     EventCount(be, samples[i].turn, t) = OnsetDue(i, t)
          /\ \A k, l \in DOMAIN be : k < l => be[k].turn <= be[l].turn

\* fresh, soft, hard, soft: a soft onset, a hard onset, and a soft sample after
\* a hard one
C19_Witness ==
    /\ SignatureReturned
    /\ Len(samples) = 4
    /\ samples[1].fatigue_status = "fresh"
    /\ samples[2].fatigue_status = "soft"
    /\ samples[3].fatigue_status = "hard"
    /\ samples[4].fatigue_status = "soft"

\* what the claim's conditions are stated over: the sum of the recorded tau_h,
\* their variance times (n Scale)^2, which is n sum(t^2) - (sum t)^2 (0 for a
\* single sample), and the greatest recorded fatigue
TauSum == SumSeq([k \in DOMAIN samples |-> samples[k].tau_h])
TauVarN2 ==
    Len(samples) * SumSeq([k \in DOMAIN samples |-> samples[k].tau_h * samples[k].tau_h])
    - TauSum * TauSum
PeakFatigue == CHOOSE x \in {samples[k].fatigue : k \in DOMAIN samples} :
                  \A k \in DOMAIN samples : samples[k].fatigue <= x

RhythmConditions ==
    LET n == Len(samples)
    IN  <<TauSum < 4000 * n /\ TauVarN2 < 2000000 * n * n,
          TauSum > 6500 * n,
          TauVarN2 > 3000000 * n * n,
          TrendOfSamples = "rising" /\ PeakFatigue > THETA_SOFT,
          TrendOfSamples = "falling",
          TRUE>>

RhythmNames == <<"reflective", "exploratory", "reflective_with_burst", "fatiguing",
                 "recovered", "steady">>

\* C20: for every non-empty sample sequence dominant_rhythm is the name of the
\* first condition that holds, in the order meanTau < 0.4 and tauVariance <
\* 0.02 (reflective); meanTau > 0.65 (exploratory); tauVariance > 0.03
\* (reflective_with_burst); trend rising and peakFatigue above 0.68
\* (fatiguing); trend falling (recovered); otherwise steady.
C20_DominantRhythmByPriority ==
    (SignatureReturned /\ samples /= <<>>) =>
      \E k \in 1..6 :
         /\ ret.val.dominant_rhythm = RhythmNames[k]
         /\ RhythmConditions[k]
         /\ \A j \in 1..(k - 1) : ~RhythmConditions[j]

\* the variance test wins over a rising trend with a peak above 0.68
C20_Witness ==
    /\ SignatureReturned /\ samples /= <<>>
    /\ ret.val.dominant_rhythm = "reflective_with_burst"
    /\ RhythmConditions[4]

-----------------------------------------------------------------------------
(* The sample sequence of a rhythm session *)

RhythmReadOps ==
    {"RhythmStore.compute_signature", "RhythmStore.save",
     "RhythmStore.format_for_recapitulation"}

\* C21: between two start_session calls the samples are append-only: record
\* adds exactly one sample at the end and keeps the earlier ones, while
\* compute_signature, save and format_for_recapitulation leave the sequence
\* as it is, so a compute_signature that follows another with no record in
\* between (only reads in between, or nothing) returns the same signature:
\* every signature returned is the signature of the samples then held.
C21_SamplesAppendOnly ==
    [][inst = "RhythmStore" =>
         /\ ret'.op = "RhythmStore.record" =>
               /\ Len(samples') = Len(samples) + 1
               /\ SubSeq(samples', 1, Len(samples)) = samples
         /\ ret'.op \in RhythmReadOps => samples' = samples
         /\ (ret'.op = "RhythmStore.compute_signature" /\ ~ret'.raised) =>
               /\ ret'.val = ComputeSignature(samples)
               /\ (ret.op = "RhythmStore.compute_signature" /\ ~ret.raised)
                     => ret'.val = ret.val
         /\ (ret'.op = "RhythmStore.save" /\ ret'.val # None) =>
               /\ Get(ret'.val).samples = samples
               /\ Get(ret'.val).signature = ComputeSignature(samples)]_vars

\* a rhythm file was written for a session of several different samples
C21_Witness ==
    /\ inst = "RhythmStore"
    /\ ret.op = "RhythmStore.save"
    /\ ret.val # None
    /\ Len(samples) >= 3
    /\ samples[1].fatigue_status # samples[3].fatigue_status

\* C22: compute_signature on a session without samples, on a store just
\* constructed or right after start_session, returns the dominant rhythm
\* "empty" with mean tau 0 and curvature integral 0.
C22_EmptySessionSignature ==
    (SignatureReturned /\ samples = <<>>) =>
        /\ ret.val.dominant_rhythm = "empty"
        /\ ret.val.mean_tau_h = 0
        /\ ret.val.curvature_integral = 0

\* the signature of a session that was started and has no sample yet
C22_Witness ==
    /\ SignatureReturned
    /\ samples = <<>>
    /\ session_id # None

-----------------------------------------------------------------------------
(* The prototype FatigueDetector under repetition and reset *)

DetectReturned ==
    /\ inst = "FatigueDetector"
    /\ ret.op = "FatigueDetector.detect"

IsZeroList(e) == \A i \in DOMAIN e : e[i] = 0

\* what the claim of C23 says of a run of the same embedding: a first turn
\* below 0.5 and not fatigued, fatigued at some turn up to the 7th, and
\* fatigued at every turn after a fatigued one
RepetitionTrips ==
    /\ streak.n = 1 => (ret.val.info.fatigue_score < 5000 /\ ~ret.val.info.is_fatigued)
    /\ streak.n >= 7 => streak.tripped
    /\ streak.tripped => ret.val.info.is_fatigued

C24_ResetRestoresFreshDetector ==
    /\ (inst = "FatigueDetector" /\ ret.op = "FatigueDetector.reset") =>
          /\ detector.embedding_history = <<>>
          /\ detector.novelty_history = <<>>
          /\ detector.fatigue_history = <<>>
    /\ (DetectReturned /\ streak.n = 1 /\ ret.val.prev = None) =>
          /\ ret.val.info.similarity = 0
          /\ ret.val.info.novelty = Scale
          /\ ret.val.info = DetectOp(DetectorFresh, ret.val.embed, None).info
          /\ detector = DetectOp(DetectorFresh, ret.val.embed, None).d

\* the first detect after a reset that followed six detect calls
C24_Witness ==
    /\ DetectReturned
    /\ streak.n = 1
    /\ ret.val.prev = None
    /\ calls = 7

-----------------------------------------------------------------------------
(* The contents of the Fatigue histories *)

\* C25: after n updates since construction or reset (fed holds the n
\* embeddings, in the order supplied) the embedding history is the last
\* min(n, W) of them in that order, and every velocity is the difference of
\* two embeddings supplied one after the other, the velocities ending with
\* (last embedding - the one before it).
C25_HistoriesAreWindowOfFed ==
    inst = "Fatigue" =>
        LET n == Len(fed)
            m == Len(fat_v)
        IN  /\ fat_e = SubSeq(fed, n - Min(n, W) + 1, n)
            /\ m <= Max(0, n - 1)
            /\ \A i \in 1..m : fat_v[i] = VSub(fed[n - m + i], fed[n - m + i - 1])
            /\ n >= 2 => (m >= 1 /\ fat_v[m] = VSub(fed[n], fed[n - 1]))

\* seven updates with embeddings that differ, the first two evicted
C25_Witness ==
    /\ inst = "Fatigue"
    /\ Len(fed) = 7
    /\ fed[1] # fed[3]
    /\ fed[6] # fed[7]
    /\ fat_e[1] = fed[3]
    /\ Len(fat_v) = W

-----------------------------------------------------------------------------
(* The pulse and the thresholds it modulates *)

\* C26: after any sequence of PulseEstimator.update calls from a fresh or
\* reset estimator (timestamps that do not decrease among them) tau is never
\* below its initial 0.5, and so the soft and hard thresholds returned by
\* modulate_thresholds are never above their defaults 0.68 and 0.84.
C26_TauNotBelowInitial ==
    inst = "PulseEstimator" =>
        /\ tau >= PulseFresh.tau
        /\ ModulateThresholds(tau).soft <= THETA_SOFT
        /\ ModulateThresholds(tau).hard <= THETA_HARD
        /\ (ret.op = "PulseEstimator.modulate_thresholds" /\ ~ret.raised) =>
              (ret.val.soft <= THETA_SOFT /\ ret.val.hard <= THETA_HARD)

\* thresholds below the defaults, returned after three updates
C26_Witness ==
    /\ inst = "PulseEstimator"
    /\ ret.op = "PulseEstimator.modulate_thresholds"
    /\ calls = MaxCalls
    /\ last_time = Some(300)
    /\ tau > PulseFresh.tau
    /\ ret.val.soft < THETA_SOFT
    /\ ret.val.hard < THETA_HARD

\* C27: for every tau in [0, 1] the thresholds modulate_thresholds returns are
\* ordered: soft below hard, and podSoft below podHigh.
C27_ThresholdsOrdered ==
    /\ \A t \in TauGrid :
          LET th == ModulateThresholds(t)
          IN  th.soft < th.hard /\ th.pod_soft < th.pod_high
    /\ (ret.op = "PulseEstimator.modulate_thresholds" /\ ~ret.raised) =>
          /\ ret.val.soft < ret.val.hard
          /\ ret.val.pod_soft < ret.val.pod_high

\* the thresholds at tau = 1, where podSoft and podHigh are closest
C27_Witness ==
    /\ inst = "modulate_thresholds"
    /\ ret.op = "PulseEstimator.modulate_thresholds"
    /\ tau = Scale
    /\ ret.val.pod_high - ret.val.pod_soft = 800

-----------------------------------------------------------------------------
(* Claims about the Vessel: turn indices, pods surfaced, refused calls *)

\* C28: after any interleaving of possess, speak and /api/reset the rhythm
\* samples of the current session carry strictly increasing turn indices, the
\* k-th sample recorded since the last possess having turn index k.
C28_SampleTurnsCount ==
    inst = "Vessel" =>
        /\ \A k \in 1..Len(samples) : samples[k].turn = k
        /\ \A k \in 2..Len(samples) : samples[k - 1].turn < samples[k].turn

PodChanged(i) == pods'[i] # pods[i]

SpokeNext == ret'.op = "Vessel.speak" /\ ~ret'.raised /\ ~ret'.val.error

\* C29: over any sequence of pod creations and speak turns each pod is
\* surfaced (returned by the detection and unveiled) in at most one turn,
\* each turn unveils at most one pod, and the pods that are not the turn's
\* match keep their state.  Step by step: pods are never removed; a pod
\* changes only in a speak turn, only from latent to unveiled, and at most
\* one pod per turn; the pod a turn returns was latent before the turn and
\* is the one pod that changed, and a turn that returns none changes none.
\* A pod once unveiled is thus never returned nor changed again.
C29_EachPodSurfacedOnce ==
    [][inst = "Vessel" =>
         /\ Len(pods') >= Len(pods)
         /\ \A i \in DOMAIN pods :
               PodChanged(i) =>
                 /\ ret'.op = "Vessel.speak"
                 /\ pods[i].state = "latent"
                 /\ pods'[i] = [pods[i] EXCEPT !.state = "unveiled"]
         /\ Cardinality({i \in DOMAIN pods : PodChanged(i)}) <= 1
         /\ SpokeNext =>
               IF ret'.val.pod = None THEN \A i \in DOMAIN pods : ~PodChanged(i)
               ELSE /\ \E i \in DOMAIN pods :
                         /\ pods[i].id = Get(ret'.val.pod).id
                         /\ pods[i].state = "latent"
                    /\ \A i \in DOMAIN pods :
                         PodChanged(i) <=> pods[i].id = Get(ret'.val.pod).id]_vars

\* a turn that surfaced the second pod, after the first was surfaced in an
\* earlier turn
C29_Witness ==
    /\ inst = "Vessel"
    /\ ret.op = "Vessel.speak" /\ ~ret.raised /\ ~ret.val.error
    /\ ret.val.pod # None
    /\ Get(ret.val.pod).id = 2
    /\ Len(ret.val.latent) = 2
    /\ ret.val.latent[1].state = "unveiled"
    /\ pods[2].state = "unveiled"

\* the session state the claim of C30 lists
SessionState ==
    <<turn, fat_e, fat_v, tau, last_time, last_user_emb, prev_user_emb, tau_dir,
      pods, samples, session_id, model, sid>>

RefusedNext ==
    /\ ret'.op \in {"Vessel.speak", "Vessel.possess"}
    /\ ~ret'.raised
    /\ ret'.val.error

\* C30: speak while no model is possessed, and possess with an unknown model
\* id, each return an error value and leave the session state as it was:
\* turn counter, fatigue, pulse and direction state, pod map, rhythm samples,
\* active model and session id.  Step by step: a speak without a model
\* returns the error, a possess that returns no error has set a model of
\* AVAILABLE_MODELS, and a step that returns the error changes nothing.
C30_RefusedCallsChangeNothing ==
    [][inst = "Vessel" =>
         /\ (ret'.op = "Vessel.speak" /\ model = None) => RefusedNext
         /\ (ret'.op = "Vessel.possess" /\ ~ret'.val.error) =>
               (model' # None /\ Get(model') \in AVAILABLE_MODELS)
         /\ RefusedNext => UNCHANGED SessionState]_vars

\* possess refused in the middle of a session that has turns, samples and a
\* pod behind it
C30_Witness ==
    /\ inst = "Vessel"
    /\ ret.op = "Vessel.possess"
    /\ ret.val.error
    /\ model # None
    /\ turn >= 2
    /\ Len(samples) >= 2
    /\ pods # <<>>
    /\ tau_dir # None

=============================================================================
